---- MODULE Spec2Model ----
(***************************************************************************)
(* Model of cchatbot.py: the Streamlit chat page of the construction       *)
(* assistant.  A text is a sequence of atoms; an atom is one letter of the *)
(* user's typing or one literal fragment of a string the program builds.   *)
(* Two specifications are given:                                           *)
(*   Spec        the session: submit events, script runs, the history;     *)
(*   SpecFilter  is_construction_related applied to every bounded text     *)
(*               under every bounded glossary.                             *)
(***************************************************************************)
EXTENDS Integers, Sequences, FiniteSets

VARIABLES
    knowledge_base,  \* the glossary: sequence of <<key, value>> in dict order
    history,         \* st.session_state.history: sequence of <<sender, msg>>
    pc,              \* "idle": page drawn, waiting; "run": a script run is due
    submitted,       \* value st.form_submit_button returns in the due run
    user_input,      \* value st.text_input returns in the due run
    event_text,      \* the string delivered by the latest submit event
    events,          \* number of submit events so far
    triggers,        \* times the handler body ran for the latest event
    spell_log,       \* what the correct_spelling calls did, latest event
    corrected,       \* handler local: corrected
    relevant,        \* results of is_construction_related in the handler
    kb_lookups,      \* results of the get_knowledge_answer calls, latest event
    info,            \* st.info messages emitted for the latest event
    nlp_calls,       \* prompts passed to nlp for the latest event
    nlp_out,         \* what nlp returned for the latest event
    answer,          \* handler local: answer
    escaped,         \* exception that escaped the latest script run
    filter_results   \* SpecFilter: results of successive filter calls

vars == <<knowledge_base, history, pc, submitted, user_input, event_text,
          events, triggers, spell_log, corrected, relevant, kb_lookups, info, nlp_calls,
          nlp_out, answer, escaped, filter_results>>

(***************************************************************************)
(* Bounds.                                                                 *)
(***************************************************************************)
MaxEvents == 3
MaxLen == 3
MaxEntries == 2
MaxCalls == 2

(***************************************************************************)
(* Texts.                                                                  *)
(***************************************************************************)
Letters == {"c", "C", "w", "W", "e"}

RECURSIVE TextsOfLen(_)
TextsOfLen(n) ==
    IF n = 0 THEN {<<>>}
    ELSE {Append(t, ch) : t \in TextsOfLen(n - 1), ch \in Letters}

Texts == UNION {TextsOfLen(n) : n \in 0..MaxLen}

\* str.lower(): letters with an upper-case form are folded, all else is kept.
LowerChar(ch) ==
    CASE ch = "C" -> "c"
      [] ch = "W" -> "w"
      [] OTHER -> ch

Lower(text) == [i \in 1..Len(text) |-> LowerChar(text[i])]

\* Python's `key in text` on strings: key occurs as a contiguous substring.
Contains(text, key) ==
    \E i \in 0..(Len(text) - Len(key)) :
        SubSeq(text, i + 1, i + Len(key)) = key

(***************************************************************************)
(* String literals of the program.                                         *)
(***************************************************************************)
YOU == "(user) You"          \* line 129, the literal with its emoji
BOT == "(robot) Bot"         \* line 130, the literal with its emoji
WarningSign == "(warning sign) "   \* the leading emoji and space of line 123
SorryText == <<"Sorry, I only answer construction-related questions.">>

Refusal_NoSign == SorryText
Refusal == <<WarningSign>> \o SorryText

PromptHead ==
    "\n    You are a civil engineer expert.\n    Answer clearly and only about construction materials, IS codes, and civil engineering.\n    If irrelevant, reply: \"Sorry, I only answer construction-related questions.\"\n\n    Chat history:\n    "
PromptUser == "\n\n    User: "
PromptTail == "\n    "

DidYouMean(text) == <<"(wrench) Did you mean: **">> \o text \o <<"** ?">>

(***************************************************************************)
(* Glossaries: what load_glossary can return.  json.load keeps the file's  *)
(* order and keeps one value per key; keys and values are any strings.     *)
(***************************************************************************)
Keys == {<<"c">>, <<"C">>, <<"c", "w">>}
AnsA == <<"Cement is a binding material...">>
AnsB == <<"Concrete work is cast in place...">>
Answers == {<<>>, AnsA, AnsB}

UniqueKeys(g) == \A i, j \in 1..Len(g) : g[i][1] = g[j][1] => i = j

RECURSIVE GlossariesOfLen(_)
GlossariesOfLen(n) ==
    IF n = 0 THEN {<<>>}
    ELSE {Append(g, <<k, v>>) : g \in GlossariesOfLen(n - 1), k \in Keys, v \in Answers}

Glossaries == {g \in UNION {GlossariesOfLen(n) : n \in 0..MaxEntries} : UniqueKeys(g)}

\* The glossaries and utterances the session specification draws from.
SessionGlossaries ==
    { <<>>,
      << <<<<"c">>, AnsA>> >>,
      << <<<<"c">>, <<>>>> >>,
      << <<<<"C">>, AnsA>> >>,
      << <<<<"c">>, AnsA>>, <<<<"c", "w">>, AnsB>> >>,
      << <<<<"c", "w">>, <<>>>>, <<<<"c">>, AnsA>> >> }

UserInputs ==
    { <<>>,             \* Send pressed on an empty box
      <<"c">>,          \* a glossary keyword as typed
      <<"e">>,          \* a misspelling the corrector turns into "c"
      <<"w">>,          \* out of domain
      <<"C", "w">>,     \* upper case the corrector keeps
      <<"c", "W">> }    \* upper case the corrector folds: a case-only change

(***************************************************************************)
(* External collaborators.                                                 *)
(***************************************************************************)
\* TextBlob(text).correct(): each unit is replaced by the known spelling
\* nearest to it; a known spelling and a capitalised one are kept.
CorrectChar(ch) ==
    CASE ch = "e" -> "c"
      [] ch = "W" -> "w"
      [] OTHER -> ch

correct_spelling(text) == [i \in 1..Len(text) |-> CorrectChar(text[i])]

\* Either call may raise instead of returning.
SpellOutcomes == {"returns", "raises"}

GenText == <<"Use M20 grade with a water-cement ratio of 0.5.">>
NlpOutputs == {GenText, SorryText}
NlpOutcomes ==
    {[raises |-> TRUE, text |-> <<>>]}
        \cup {[raises |-> FALSE, text |-> t] : t \in NlpOutputs}

NoError == "none"
SpellCorrectionError == "exception in correct_spelling"
ModelUnavailableError == "exception in nlp"

(***************************************************************************)
(* Helper functions, lines 31-60.                                          *)
(***************************************************************************)
is_construction_related_NoLower(text) ==
    \E i \in 1..Len(knowledge_base) : Contains(text, knowledge_base[i][1])

is_construction_related_LowerKeys(text) ==
    \E i \in 1..Len(knowledge_base) :
        Contains(Lower(text), Lower(knowledge_base[i][1]))

is_construction_related(text) ==
    \E i \in 1..Len(knowledge_base) : Contains(Lower(text), knowledge_base[i][1])

None == [found |-> FALSE, value |-> <<>>]
Some(v) == [found |-> TRUE, value |-> v]

\* The for loop of get_knowledge_answer from item i on.
RECURSIVE ScanItems(_, _)
ScanItems(text, i) ==
    IF i > Len(knowledge_base) THEN None
    ELSE IF Contains(Lower(text), knowledge_base[i][1])
         THEN Some(knowledge_base[i][2])
         ELSE ScanItems(text, i + 1)

RECURSIVE ScanItems_NoLower(_, _)
ScanItems_NoLower(text, i) ==
    IF i > Len(knowledge_base) THEN None
    ELSE IF Contains(text, knowledge_base[i][1])
         THEN Some(knowledge_base[i][2])
         ELSE ScanItems_NoLower(text, i + 1)

get_knowledge_answer_NoLower(text) == ScanItems_NoLower(text, 1)

get_knowledge_answer(text) == ScanItems(text, 1)

\* Python truthiness of kb_answer: None and "" are falsy.
Truthy(opt) == opt.found /\ opt.value # <<>>

HistoryWindow == 3

\* h[-3:]
LastTurns_Two(h) == SubSeq(h, IF Len(h) > 2 THEN Len(h) - 1 ELSE 1, Len(h))

LastTurns(h) ==
    SubSeq(h, IF Len(h) > HistoryWindow THEN Len(h) - HistoryWindow + 1 ELSE 1, Len(h))

FormatTurn(t) == <<t[1], ": ">> \o t[2]

\* "\n".join(lines)
RECURSIVE JoinLines(_)
JoinLines(lines) ==
    IF Len(lines) = 0 THEN <<>>
    ELSE IF Len(lines) = 1 THEN lines[1]
    ELSE lines[1] \o <<"\n">> \o JoinLines(Tail(lines))

BuildPrompt(text, h) ==
    LET turns == LastTurns(h)
        context == JoinLines([i \in 1..Len(turns) |-> FormatTurn(turns[i])])
    IN  <<PromptHead>> \o context \o <<PromptUser>> \o text \o <<PromptTail>>

\* generate_response(user_input, history), `out` being what nlp does if called.
generate_response(text, h, out) ==
    LET kb_answer == get_knowledge_answer(text) IN
    IF Truthy(kb_answer)
    THEN [lookups |-> <<kb_answer>>, prompts |-> <<>>, output |-> <<>>,
          raised |-> FALSE, result |-> kb_answer.value]
    ELSE [lookups |-> <<kb_answer>>, prompts |-> <<BuildPrompt(text, h)>>,
          output |-> IF out.raises THEN <<>> ELSE <<out.text>>,
          raised |-> out.raises, result |-> out.text]

(***************************************************************************)
(* The page script, lines 102-131.                                         *)
(***************************************************************************)
\* Line 120: the condition under which the handler body runs.
ShouldHandle_NoEmptyGuard(sub, text) == sub

ShouldHandle(sub, text) == sub /\ text # <<>>

\* Lines 125-126: the st.info messages of one handled input that passed the
\* filter.
Advisory_CaseSensitive(raw, corr) ==
    IF corr # raw THEN <<DidYouMean(corr)>> ELSE <<>>

Advisory(raw, corr) ==
    IF Lower(corr) # Lower(raw) THEN <<DidYouMean(corr)>> ELSE <<>>

\* Lines 129-130: the two appends.
HistoryAfter_StoresCorrected(h, raw, corr, reply) ==
    h \o << <<YOU, corr>>, <<BOT, reply>> >>

HistoryAfter(h, raw, corr, reply) == h \o << <<YOU, raw>>, <<BOT, reply>> >>

\* Lines 121-127 on input raw with history h, `spell` and `out` being what
\* the corrector and the model do when called.  completed: line 128 reached.
HandlerBody(raw, h, spell, out) ==
    LET corr == correct_spelling(raw)
        gen  == generate_response(corr, h, out)
        base == [spell |-> <<spell>>, corrected |-> <<>>, relevant |-> <<>>, lookups |-> <<>>,
                 info |-> <<>>, prompts |-> <<>>, output |-> <<>>,
                 answer |-> <<>>, escaped |-> NoError, completed |-> FALSE]
    IN  IF spell = "raises"
        THEN [base EXCEPT !.escaped = SpellCorrectionError]
        ELSE IF ~is_construction_related(corr)
        THEN [base EXCEPT !.corrected = <<corr>>, !.relevant = <<FALSE>>,
                          !.answer = <<Refusal>>, !.completed = TRUE]
        ELSE [base EXCEPT !.corrected = <<corr>>, !.relevant = <<TRUE>>,
                          !.info = Advisory(raw, corr),
                          !.lookups = gen.lookups,
                          !.prompts = gen.prompts,
                          !.output = gen.output,
                          !.answer = IF gen.raised THEN <<>> ELSE <<gen.result>>,
                          !.escaped = IF gen.raised THEN ModelUnavailableError
                                      ELSE NoError,
                          !.completed = ~gen.raised]

Init ==
    /\ knowledge_base \in SessionGlossaries
    /\ history = <<>>
    /\ pc = "idle"
    /\ submitted = FALSE
    /\ user_input = <<>>
    /\ event_text = <<>>
    /\ events = 0
    /\ triggers = 0
    /\ spell_log = <<>>
    /\ corrected = <<>>
    /\ relevant = <<>>
    /\ kb_lookups = <<>>
    /\ info = <<>>
    /\ nlp_calls = <<>>
    /\ nlp_out = <<>>
    /\ answer = <<>>
    /\ escaped = NoError
    /\ filter_results = <<>>

\* The user presses Send with `text` in the box: the form delivers the text,
\* clears the box (clear_on_submit) and a script run becomes due.
Submit(text) ==
    /\ pc = "idle"
    /\ events < MaxEvents
    /\ pc' = "run"
    /\ submitted' = TRUE
    /\ user_input' = text
    /\ event_text' = text
    /\ events' = events + 1
    /\ triggers' = 0
    /\ spell_log' = <<>>
    /\ corrected' = <<>>
    /\ relevant' = <<>>
    /\ kb_lookups' = <<>>
    /\ info' = <<>>
    /\ nlp_calls' = <<>>
    /\ nlp_out' = <<>>
    /\ answer' = <<>>
    /\ escaped' = NoError
    /\ UNCHANGED <<knowledge_base, history, filter_results>>

\* One run of the script in which the handler body runs.  It ends in
\* st.rerun() (another run is due, the button no longer pressed, the box
\* empty) or in an exception no code catches (the run stops).
HandleSubmit(spell, out) ==
    /\ pc = "run"
    /\ ShouldHandle(submitted, user_input)
    /\ LET r == HandlerBody(user_input, history, spell, out) IN
        /\ triggers' = triggers + 1
        /\ spell_log' = r.spell
        /\ corrected' = r.corrected
        /\ relevant' = r.relevant
        /\ kb_lookups' = r.lookups
        /\ info' = r.info
        /\ nlp_calls' = r.prompts
        /\ nlp_out' = r.output
        /\ answer' = r.answer
        /\ escaped' = r.escaped
        /\ history' = IF r.completed
                      THEN HistoryAfter(history, user_input, r.corrected[1], r.answer[1])
                      ELSE history
        /\ pc' = IF r.completed THEN "run" ELSE "idle"
    /\ submitted' = FALSE
    /\ user_input' = <<>>
    /\ UNCHANGED <<knowledge_base, event_text, events, filter_results>>

\* One run of the script in which line 120 is false: the page is drawn only.
Redraw ==
    /\ pc = "run"
    /\ ~ShouldHandle(submitted, user_input)
    /\ pc' = "idle"
    /\ submitted' = FALSE
    /\ user_input' = <<>>
    /\ UNCHANGED <<knowledge_base, history, event_text, events, triggers,
                   spell_log, corrected, relevant, kb_lookups, info, nlp_calls, nlp_out,
                   answer, escaped, filter_results>>

Next ==
    \/ \E text \in UserInputs : Submit(text)
    \/ \E spell \in SpellOutcomes, out \in NlpOutcomes : HandleSubmit(spell, out)
    \/ Redraw

Spec == Init /\ [][Next]_vars

(***************************************************************************)
(* SpecFilter: is_construction_related as a function of text and glossary. *)
(***************************************************************************)
InitFilter ==
    /\ knowledge_base \in Glossaries
    /\ user_input \in Texts
    /\ pc = "filter"
    /\ filter_results = <<>>
    /\ history = <<>>
    /\ submitted = FALSE
    /\ event_text = <<>>
    /\ events = 0
    /\ triggers = 0
    /\ spell_log = <<>>
    /\ corrected = <<>>
    /\ relevant = <<>>
    /\ kb_lookups = <<>>
    /\ info = <<>>
    /\ nlp_calls = <<>>
    /\ nlp_out = <<>>
    /\ answer = <<>>
    /\ escaped = NoError

CallFilter ==
    /\ pc = "filter"
    /\ Len(filter_results) < MaxCalls
    /\ filter_results' = Append(filter_results, is_construction_related(user_input))
    /\ UNCHANGED <<knowledge_base, history, pc, submitted, user_input,
                   event_text, events, triggers, spell_log, corrected,
                   relevant, kb_lookups, info, nlp_calls, nlp_out, answer, escaped>>

NextFilter == CallFilter

SpecFilter == InitFilter /\ [][NextFilter]_vars

(***************************************************************************)
(* Vocabulary of the properties.                                           *)
(***************************************************************************)
\* The handler body ran for the latest submit event.
Handled == triggers >= 1
\* ... and reached its end (the appends and st.rerun()).
Completed == Handled /\ escaped = NoError
\* ... and its corrector call returned.
Corrected == Handled /\ Len(corrected) = 1

LastUser == history[Len(history) - 1]
LastBot == history[Len(history)]
HistoryBefore ==
    IF Completed THEN SubSeq(history, 1, Len(history) - 2) ELSE history

\* Some glossary key is a substring of the lowercased text.
KeyIn(text) ==
    \E i \in 1..Len(knowledge_base) : Contains(Lower(text), knowledge_base[i][1])
MatchingEntries(text) ==
    {i \in 1..Len(knowledge_base) : Contains(Lower(text), knowledge_base[i][1])}
FirstMatchAnswer(text) ==
    LET m == CHOOSE i \in MatchingEntries(text) :
                 \A j \in MatchingEntries(text) : i <= j
    IN  knowledge_base[m][2]
GlossaryAnswers == {knowledge_base[i][2] : i \in 1..Len(knowledge_base)}

ModelRaised == Handled /\ nlp_calls # <<>> /\ nlp_out = <<>>
SpellRaised == Handled /\ spell_log = <<"raises">>
TurnsAppended(raw, reply) ==
    /\ Len(history) >= 2
    /\ LastUser = <<YOU, raw>>
    /\ LastBot = <<BOT, reply>>

(***************************************************************************)
(* C1.                                                                     *)
(***************************************************************************)
\* C1 as stated: an input whose lowercased corrected text contains no
\* glossary key gets exactly the reply "Sorry, I only answer
\* construction-related questions.", and neither the lookup nor the model
\* is invoked.
C1_RefusalIsBareSorryText ==
    (Corrected /\ ~KeyIn(corrected[1])) =>
        /\ Completed
        /\ TurnsAppended(event_text, SorryText)
        /\ kb_lookups = <<>>
        /\ nlp_calls = <<>>

\* C1 (amended): a handled input whose lowercased corrected text contains no
\* glossary key gets the reply made of the warning sign, a space and the
\* sentence "Sorry, I only answer construction-related questions.", and
\* neither get_knowledge_answer nor nlp is called for it.
C1_RefusalReply ==
    (Corrected /\ ~KeyIn(corrected[1])) =>
        /\ Completed
        /\ TurnsAppended(event_text, <<WarningSign>> \o SorryText)
        /\ kb_lookups = <<>>
        /\ nlp_calls = <<>>

C1_Witness ==
    /\ pc = "idle"
    /\ Corrected /\ ~KeyIn(corrected[1])
    /\ knowledge_base # <<>>
    /\ LastBot[2] = <<WarningSign>> \o SorryText

(***************************************************************************)
(* C2.                                                                     *)
(***************************************************************************)
\* C2 as stated: an input whose lowercased corrected text contains a glossary
\* key gets, whatever the glossary (an empty answer included), the answer of
\* the first such key verbatim, and the model is not invoked.  Stated of the
\* runs in which no call raises, so that only the reply decides it.
C2_FirstMatchAnswered ==
    (Corrected /\ KeyIn(corrected[1]) /\ escaped = NoError) =>
        /\ Completed
        /\ TurnsAppended(event_text, FirstMatchAnswer(corrected[1]))
        /\ nlp_calls = <<>>

(***************************************************************************)
(* C3.                                                                     *)
(***************************************************************************)
\* C3 as stated: when the model raises, no exception escapes, a reply is
\* produced and the (User, Bot) pair is appended to the history.
C3_ModelFailureRecovered ==
    ModelRaised =>
        /\ escaped = NoError
        /\ Len(answer) = 1
        /\ TurnsAppended(event_text, answer[1])

(***************************************************************************)
(* C4.                                                                     *)
(***************************************************************************)
\* C4 as stated: when the corrector raises, the handler goes on with the raw
\* text as the corrected text, no error escapes and a reply is appended.
C4_SpellFailureRecovered ==
    SpellRaised =>
        /\ escaped = NoError
        /\ corrected = <<event_text>>
        /\ Len(answer) = 1
        /\ TurnsAppended(event_text, answer[1])

(***************************************************************************)
(* C5.                                                                     *)
(***************************************************************************)
\* C5 as stated: the advisory is emitted exactly when the corrected text
\* differs from the raw input ignoring case, whichever branch replies.
C5_AdvisoryOnEveryBranch ==
    Corrected =>
        ((info # <<>>) <=> (Lower(corrected[1]) # Lower(event_text)))

\* C5 (amended): the advisory "Did you mean: <corrected>" is emitted exactly
\* when the corrected text differs from the raw input ignoring case AND the
\* corrected text passes the relevance filter; a refused input never gets it.
C5_AdvisoryOnlyWhenRelevant ==
    Corrected =>
        info = IF Lower(corrected[1]) # Lower(event_text) /\ KeyIn(corrected[1])
               THEN << <<"(wrench) Did you mean: **">> \o corrected[1] \o <<"** ?">> >>
               ELSE <<>>

C5_Witness ==
    /\ Completed
    /\ ~KeyIn(corrected[1])
    /\ Lower(corrected[1]) # Lower(event_text)
    /\ info = <<>>

(***************************************************************************)
(* C6.                                                                     *)
(***************************************************************************)
\* The prompt the claim describes: the instruction header, the last
\* min(3, n) of the n turns of h in order, each as "speaker: text" and
\* newline-joined, then the text.
Min(a, b) == IF a <= b THEN a ELSE b

RECURSIVE TurnLines(_, _, _)
TurnLines(h, from, to) ==
    IF from > to THEN <<>>
    ELSE <<h[from][1], ": ">> \o h[from][2]
             \o (IF from < to THEN <<"\n">> ELSE <<>>)
             \o TurnLines(h, from + 1, to)

ExpectedPrompt(h, text) ==
    <<PromptHead>> \o TurnLines(h, Len(h) - Min(3, Len(h)) + 1, Len(h))
        \o <<PromptUser>> \o text \o <<PromptTail>>

\* The input passed the filter and the lookup gave nothing to reply with.
ReachedGeneration ==
    /\ Corrected
    /\ relevant = <<TRUE>>
    /\ Len(kb_lookups) = 1
    /\ ~(kb_lookups[1].found /\ kb_lookups[1].value # <<>>)

\* C6: an input that passes the filter and gets no answer from the lookup
\* invokes the model exactly once, with the header, the last min(3, n) turns
\* of the history as it stood before this input's turns, and the corrected
\* input; the reply stored is the model's output unmodified.  The model is
\* invoked for no other input.
C6_PromptAndReply ==
    /\ ReachedGeneration =>
          /\ Len(nlp_calls) = 1
          /\ nlp_calls[1] = ExpectedPrompt(HistoryBefore, corrected[1])
          /\ nlp_out # <<>> =>
                 (Completed /\ TurnsAppended(event_text, nlp_out[1]))
    /\ nlp_calls # <<>> => ReachedGeneration

C6_Witness ==
    /\ ReachedGeneration
    /\ Completed
    /\ Len(history) = 6
    /\ corrected[1] # event_text
    /\ LastBot[2] = GenText

(***************************************************************************)
(* C7.                                                                     *)
(***************************************************************************)
\* C7 as stated: once the page is at rest again, the handler has run exactly
\* once for the latest submit event, whatever string it delivered.
C7_EveryEventHandledOnce ==
    (pc = "idle" /\ events > 0) => triggers = 1

\* C7 (amended): a submit event delivering a non-empty string runs the
\* handler exactly once, the redraw that follows not running it again; a
\* submit event delivering the empty string is dropped: the handler does not
\* run for it.
C7_NonEmptyHandledOnce ==
    /\ triggers <= 1
    /\ (pc = "idle" /\ events > 0) =>
           triggers = IF event_text # <<>> THEN 1 ELSE 0

C7_Witness ==
    /\ pc = "idle"
    /\ events = 2
    /\ triggers = 1
    /\ Completed
    /\ Len(history) = 2

(***************************************************************************)
(* C8.                                                                     *)
(***************************************************************************)
IsAdvisory(msg) == Len(msg) >= 1 /\ msg[1] = "(wrench) Did you mean: **"

WellFormedHistory ==
    /\ Len(history) % 2 = 0
    /\ \A i \in 1..Len(history) :
           /\ history[i][1] = (IF i % 2 = 1 THEN YOU ELSE BOT)
           /\ ~IsAdvisory(history[i][2])

\* A step leaves the history alone, or is the end of a handler run and
\* appends (User, raw text), (Bot, reply) to it; a handler run that reaches
\* its end does append.
HistoryStep ==
    /\ \/ history' = history
       \/ /\ triggers' = triggers + 1
          /\ escaped' = NoError
          /\ Len(answer') = 1
          /\ history' = history \o << <<YOU, event_text>>, <<BOT, answer'[1]>> >>
    /\ (triggers' = triggers + 1 /\ escaped' = NoError) =>
           Len(history') = Len(history) + 2

\* C8: the history is append-only: every step that changes it is a handler
\* run that has produced its reply, and appends exactly (User, the raw
\* submitted text), (Bot, the reply); so it has even length, User and Bot
\* alternate, and it holds no advisory and no corrected text.
C8_HistoryAppendOnly == [](WellFormedHistory) /\ [][HistoryStep]_vars

C8_Witness ==
    /\ pc = "idle"
    /\ Len(history) = 6
    /\ Completed
    /\ corrected[1] # event_text
    /\ info # <<>>
    /\ LastUser = <<YOU, event_text>>

(***************************************************************************)
(* C9, under SpecFilter.                                                   *)
(***************************************************************************)
\* C9 as stated: the filter is true iff the lowercased text contains the
\* lowercased form of some glossary key.
C9_FilterLowersKeys ==
    \A k \in 1..Len(filter_results) :
        filter_results[k] =
            (\E i \in 1..Len(knowledge_base) :
                Contains(Lower(user_input), Lower(knowledge_base[i][1])))

\* C9 (amended): the filter is true iff the lowercased text contains some
\* glossary key as it is stored (a key with an upper-case letter never
\* matches); every call on the same text and glossary gives that result.
C9_FilterKeysVerbatim ==
    \A k \in 1..Len(filter_results) :
        filter_results[k] =
            (\E i \in 1..Len(knowledge_base) :
                \E j \in 1..Len(user_input) :
                    /\ j + Len(knowledge_base[i][1]) - 1 <= Len(user_input)
                    /\ \A d \in 1..Len(knowledge_base[i][1]) :
                           LowerChar(user_input[j + d - 1]) = knowledge_base[i][1][d])

C9_Witness ==
    /\ filter_results = <<TRUE, TRUE>>
    /\ user_input # Lower(user_input)
    /\ Len(user_input) = 3
    /\ \E i \in 1..Len(knowledge_base) : Len(knowledge_base[i][1]) = 2
    /\ \A i \in 1..Len(knowledge_base) : knowledge_base[i][1] # <<"c">>

(***************************************************************************)
(* C10.                                                                    *)
(***************************************************************************)
\* C10: whenever the filter passes, the lookup finds a key; so the model is
\* invoked only when the first matching key's answer is empty, and with a
\* glossary whose answers are all non-empty the model is never invoked and
\* every reply is the refusal or a glossary answer.
C10_GenerationOnlyOnEmptyAnswer ==
    /\ (Handled /\ relevant = <<TRUE>>) =>
           (Len(kb_lookups) = 1 /\ kb_lookups[1].found)
    /\ nlp_calls # <<>> =>
           (KeyIn(corrected[1]) /\ FirstMatchAnswer(corrected[1]) = <<>>)
    /\ (<<>> \notin GlossaryAnswers) =>
           /\ nlp_calls = <<>>
           /\ \A i \in 1..Len(history) :
                  i % 2 = 0 =>
                      history[i][2] \in {<<WarningSign>> \o SorryText} \cup GlossaryAnswers

C10_Witness ==
    /\ Completed
    /\ nlp_calls # <<>>
    /\ Len(knowledge_base) = 2
    /\ Len(history) = 4
    /\ history[2][2] = AnsA

====
